---------------------------- MODULE Spec2Model ----------------------------
(***************************************************************************)
(* Outline extraction pipeline of the pdf-parser repository                *)
(* (PDFOutlineExtractor, ContentFilter, FontAnalyzer, HeadingClassifier,   *)
(* TextProcessor), modelled as a state machine over block-level input.     *)
(*                                                                         *)
(* Texts are TLA+ strings read character by character with SubSeq.  Font   *)
(* sizes are integers in tenths of a point (the code rounds sizes to one   *)
(* decimal), lengths on the page are integers in layout units.             *)
(***************************************************************************)
EXTENDS Integers, Sequences, FiniteSets, TLC

(***************************************************************************)
(* Characters and Python str primitives                                    *)
(***************************************************************************)
Lowers == "abcdefghijklmnopqrstuvwxyz"
Uppers == "ABCDEFGHIJKLMNOPQRSTUVWXYZ"
Digits == "0123456789"

Ch(s, i) == SubSeq(s, i, i)

CharSet(s) == {Ch(s, i) : i \in 1..Len(s)}

LowerSet == CharSet(Lowers)
UpperSet == CharSet(Uppers)
DigitSet == CharSet(Digits)
\* \s of the re module and the whitespace of str.strip()/str.split()
SpaceSet == {" ", "\t", "\n", "\r"}
\* \w of the re module
WordSet  == LowerSet \cup UpperSet \cup DigitSet \cup {"_"}

\* The copyright sign and the bullet glyphs of utils.clean_heading_text are
\* written as the one-character stand-ins "@" and "~".
CopyrightSign == "@"
BulletGlyph   == "~"

SetMin(S) == CHOOSE x \in S : \A y \in S : x <= y
SetMax(S) == CHOOSE x \in S : \A y \in S : x >= y

ToLower(c) ==
    IF c \in UpperSet
    THEN Ch(Lowers, CHOOSE i \in 1..26 : Ch(Uppers, i) = c)
    ELSE c

ToUpper(c) ==
    IF c \in LowerSet
    THEN Ch(Uppers, CHOOSE i \in 1..26 : Ch(Lowers, i) = c)
    ELSE c

\* the first and the last position of s whose character is not in chars
\* (0 when there is none)
FirstNotIn(s, chars) ==
    IF \A i \in 1..Len(s) : Ch(s, i) \in chars THEN 0
    ELSE CHOOSE i \in 1..Len(s) :
            Ch(s, i) \notin chars /\ \A j \in 1..(i - 1) : Ch(s, j) \in chars

LastNotIn(s, chars) ==
    IF \A i \in 1..Len(s) : Ch(s, i) \in chars THEN 0
    ELSE Len(s) - (CHOOSE k \in 0..(Len(s) - 1) :
            /\ Ch(s, Len(s) - k) \notin chars
            /\ \A j \in (Len(s) - k + 1)..Len(s) : Ch(s, j) \in chars)

\* str.strip()
Strip(s) ==
    IF Len(s) > 0 /\ Ch(s, 1) \notin SpaceSet /\ Ch(s, Len(s)) \notin SpaceSet THEN s
    ELSE IF FirstNotIn(s, SpaceSet) = 0 THEN ""
    ELSE SubSeq(s, FirstNotIn(s, SpaceSet), LastNotIn(s, SpaceSet))

\* str.rstrip() and str.rstrip(chars)
RStripChars(s, chars) == SubSeq(s, 1, LastNotIn(s, chars))

RStrip(s) == RStripChars(s, SpaceSet)

\* str.endswith / str.startswith
EndsWith(s, suf) ==
    Len(suf) <= Len(s) /\ SubSeq(s, Len(s) - Len(suf) + 1, Len(s)) = suf

\* sub in s
Contains(s, sub) ==
    \E i \in 1..(Len(s) - Len(sub) + 1) : SubSeq(s, i, i + Len(sub) - 1) = sub

\* sub in s.lower(), for a lower-case sub
ContainsLower(s, sub) ==
    \E i \in 1..(Len(s) - Len(sub) + 1) :
        \A j \in 1..Len(sub) : ToLower(Ch(s, i + j - 1)) = Ch(sub, j)

\* the start positions of the words of s.split()
WordStarts(s) ==
    {i \in 1..Len(s) : /\ Ch(s, i) \notin SpaceSet
                       /\ (i = 1 \/ Ch(s, i - 1) \in SpaceSet)}

\* len(s.split())
WordCount(s) == Cardinality(WordStarts(s))

\* s.split()[-1], for a text with at least one word
LastWord(s) == SubSeq(s, SetMax(WordStarts(s)), LastNotIn(s, SpaceSet))

\* the words of s.split(), as a set
Words(s) ==
    {SubSeq(s, i, SetMin({j \in i..Len(s) :
                            j = Len(s) \/ Ch(s, j + 1) \in SpaceSet}))
        : i \in WordStarts(s)}

\* str.isalpha(), str.isdigit() on a non-empty word
IsAlpha(w) == Len(w) > 0 /\ \A i \in 1..Len(w) : Ch(w, i) \in LowerSet \cup UpperSet
IsDigit(w) == Len(w) > 0 /\ \A i \in 1..Len(w) : Ch(w, i) \in DigitSet

\* the strings pieces[lo], ..., pieces[hi] joined in order
RECURSIVE Concat(_, _, _)
Concat(pieces, lo, hi) ==
    IF lo > hi THEN ""
    ELSE IF lo = hi THEN pieces[lo]
    ELSE LET mid == (lo + hi) \div 2
         IN  Concat(pieces, lo, mid) \o Concat(pieces, mid + 1, hi)

\* re.sub(r'\s+', ' ', s)
CollapseSpaces(s) ==
    LET piece == [i \in 1..Len(s) |->
                    IF Ch(s, i) \notin SpaceSet THEN Ch(s, i)
                    ELSE IF i = 1 \/ Ch(s, i - 1) \notin SpaceSet THEN " "
                    ELSE ""]
    IN  Concat(piece, 1, Len(s))

\* a text of n copies of the character c
RECURSIVE Repeat(_, _)
Repeat(c, n) ==
    IF n <= 0 THEN ""
    ELSE IF n = 1 THEN c
    ELSE Repeat(c, n \div 2) \o Repeat(c, n - (n \div 2))

(***************************************************************************)
(* Regular expressions of the re module: a pattern is a tree, and          *)
(* Ends(r, s, P) is the set of positions at which a match of r can end     *)
(* when it starts at one of the positions P of s.                          *)
(***************************************************************************)
Cls(S)         == [k |-> "cls", set |-> S, neg |-> FALSE]
NotCls(S)      == [k |-> "cls", set |-> S, neg |-> TRUE]
Cat(rs)        == [k |-> "cat", rs |-> rs]
Alt(rs)        == [k |-> "alt", rs |-> rs]
\* r{lo,hi}, and r{lo,} when open
Rep(r, lo, hi) == [k |-> "rep", r |-> r, lo |-> lo, hi |-> hi, open |-> FALSE]
AtLeast(r, lo) == [k |-> "rep", r |-> r, lo |-> lo, hi |-> lo, open |-> TRUE]
EndAnchor      == [k |-> "end"]
WordBoundary   == [k |-> "wb"]

AnyChar  == NotCls({"\n"})
DigitC   == Cls(DigitSet)
SpaceC   == Cls(SpaceSet)
WordC    == Cls(WordSet)
Star(r)  == AtLeast(r, 0)
Plus(r)  == AtLeast(r, 1)
Opt(r)   == Rep(r, 0, 1)
\* one literal character, and a literal under re.IGNORECASE
C(c)     == Cls({c})
Ci(c)    == Cls({ToLower(c), ToUpper(c)})
Lit(str)   == Cat([i \in 1..Len(str) |-> C(Ch(str, i))])
LitCi(str) == Cat([i \in 1..Len(str) |-> Ci(Ch(str, i))])

IsWordAt(s, i) == i >= 1 /\ i <= Len(s) /\ Ch(s, i) \in WordSet

RECURSIVE Ends(_, _, _)
RECURSIVE CatEnds(_, _, _, _)
RECURSIVE RepEnds(_, _, _, _, _, _)
RECURSIVE StarEnds(_, _, _, _)

Ends(r, s, P) ==
    IF P = {} THEN {}
    ELSE CASE r.k = "cls" ->
                {p + 1 : p \in {q \in P : /\ q <= Len(s)
                                          /\ (Ch(s, q) \in r.set) # r.neg}}
           [] r.k = "cat" -> CatEnds(r.rs, 1, s, P)
           [] r.k = "alt" -> UNION {Ends(r.rs[i], s, P) : i \in 1..Len(r.rs)}
           [] r.k = "rep" -> RepEnds(r.r, r.lo, r.hi, r.open, s, P)
           [] r.k = "end" ->
                {p \in P : \/ p = Len(s) + 1
                           \/ (p = Len(s) /\ Ch(s, p) = "\n")}
           [] r.k = "wb"  ->
                {p \in P : IsWordAt(s, p - 1) # IsWordAt(s, p)}

CatEnds(rs, i, s, P) ==
    IF i > Len(rs) \/ P = {} THEN P
    ELSE CatEnds(rs, i + 1, s, Ends(rs[i], s, P))

\* r* for a character class r: q is reached from a start p <= q when every
\* character of s[p..q-1] is in the class
ClsStarEnds(r, s, P) ==
    LET bad == {i \in 1..Len(s) : (Ch(s, i) \in r.set) = r.neg}
    IN  {q \in 1..(Len(s) + 1) :
            \E p \in P : p <= q /\ \A b \in bad : b < p \/ b >= q}

RepEnds(r, lo, hi, open, s, P) ==
    IF P = {} THEN {}
    ELSE IF lo > 0 THEN RepEnds(r, lo - 1, hi - 1, open, s, Ends(r, s, P))
    ELSE IF open
         THEN IF r.k = "cls" THEN ClsStarEnds(r, s, P) ELSE StarEnds(r, s, P, P)
    ELSE IF hi <= 0 THEN P
    ELSE P \cup RepEnds(r, 0, hi - 1, open, s, Ends(r, s, P))

StarEnds(r, s, frontier, seen) ==
    LET new == Ends(r, s, frontier) \ seen
    IN  IF new = {} THEN seen ELSE StarEnds(r, s, new, seen \cup new)

\* re.match(pattern, s) and re.search(pattern, s), as booleans
ReMatch(r, s)  == Ends(r, s, {1}) # {}
ReSearch(r, s) == Ends(r, s, 1..(Len(s) + 1)) # {}

\* the alternatives (a|b|...) of literal words under re.IGNORECASE
AltCi(ws) == Alt([i \in 1..Len(ws) |-> LitCi(ws[i])])

\* any(re.match(pattern, text) for pattern in patterns)
AnyMatch(patterns, text) == \E i \in 1..Len(patterns) : ReMatch(patterns[i], text)

\* str.lower()
Lower(s) == Concat([i \in 1..Len(s) |-> ToLower(Ch(s, i))], 1, Len(s))

\* any(keyword in text.lower() for keyword in keywords)
AnyKeyword(keywords, text) == \E kw \in keywords : ContainsLower(text, kw)

(***************************************************************************)
(* utils.py                                                                *)
(***************************************************************************)
RomanC == Cls(CharSet("ivxlcdmIVXLCDM"))

PageNumberPatterns ==
    << Cat(<<Rep(DigitC, 1, 3), EndAnchor>>),
       Cat(<<LitCi("Page"), Plus(SpaceC), Plus(DigitC)>>),
       Cat(<<Plus(DigitC), Plus(SpaceC), LitCi("of"), Plus(SpaceC), Plus(DigitC),
             EndAnchor>>),
       Cat(<<Rep(RomanC, 1, 6), EndAnchor>>) >>

is_page_number(text) == AnyMatch(PageNumberPatterns, Strip(text))

\* x_position < page_width * 0.7 or abs(x_position - center_x) < page_width * 0.25
is_left_or_center_aligned(block) ==
    LET x_position == block.bbox[1]
        page_width == block.page_width
        diff2      == IF 2 * x_position >= page_width
                      THEN 2 * x_position - page_width
                      ELSE page_width - 2 * x_position
    IN  \/ 10 * x_position < 7 * page_width
        \/ 2 * diff2 < page_width

\* y_position > page_height * 0.85
is_footer_area(block) == 100 * block.bbox[2] > 85 * block.page_height

BulletChars == {BulletGlyph, "-", "*", "+"} \cup SpaceSet

clean_heading_text(text) ==
    LET collapsed == CollapseSpaces(Strip(text))
        unbullet  == IF FirstNotIn(collapsed, BulletChars) = 0 THEN ""
                     ELSE SubSeq(collapsed, FirstNotIn(collapsed, BulletChars),
                                 Len(collapsed))
        cleaned   == IF /\ EndsWith(unbullet, ".")
                        /\ WordCount(unbullet) > 1
                        /\ Len(LastWord(unbullet)) > 3
                     THEN RStripChars(unbullet, {"."})
                     ELSE unbullet
    IN  Strip(cleaned)

(***************************************************************************)
(* content_filter.py: ContentFilter                                        *)
(***************************************************************************)
Months == <<"JAN", "FEB", "MAR", "APR", "MAY", "JUN",
            "JUL", "AUG", "SEP", "OCT", "NOV", "DEC">>

DotNum == Cat(<<Plus(DigitC), Star(Cat(<<C("."), Plus(DigitC)>>))>>)

TableIndicators ==
    << Cat(<<Plus(DigitC), C("."), Plus(DigitC), Plus(SpaceC), Plus(DigitC),
             Plus(SpaceC), AltCi(Months), Plus(SpaceC), Rep(DigitC, 4, 4)>>),
       Cat(<<Plus(Cls(DigitSet \cup {"."})), Plus(SpaceC),
             Plus(Cls(DigitSet \cup {"."})), EndAnchor>>),
       Cat(<<Rep(DigitC, 1, 2), Plus(SpaceC),
             AltCi(<<"JUNE", "JULY", "NOVEMBER", "DECEMBER">>),
             Plus(SpaceC), Rep(DigitC, 4, 4)>>),
       Cat(<<Plus(DigitC), Plus(Cat(<<Plus(SpaceC), Plus(DigitC)>>)), EndAnchor>>),
       Cat(<<C(CopyrightSign), Star(AnyChar), Rep(DigitC, 4, 4), EndAnchor>>),
       Cat(<<LitCi("Page"), Plus(SpaceC), Plus(DigitC), Plus(SpaceC), LitCi("of"),
             Plus(SpaceC), Plus(DigitC)>>),
       Cat(<<LitCi("Version"), Plus(SpaceC), Rep(DigitC, 4, 4)>>),
       Cat(<<LitCi("May"), Plus(SpaceC), Rep(DigitC, 1, 2), C(","), Plus(SpaceC),
             Rep(DigitC, 4, 4)>>),
       Cat(<<LitCi("Version"), Plus(SpaceC), LitCi("Date"), Plus(SpaceC),
             LitCi("Remarks"), EndAnchor>>),
       Cat(<<LitCi("Syllabus"), Plus(SpaceC), LitCi("Days"), EndAnchor>>) >>

\* the texts identify_table_patterns adds for these blocks
TablePatternTextsOf(text_blocks) ==
    {Strip(text_blocks[i].text) : i \in {j \in 1..Len(text_blocks) :
        AnyMatch(TableIndicators, Strip(text_blocks[j].text))}}

identify_table_patterns(cf, text_blocks) ==
    [cf EXCEPT !.table_patterns = @ \cup TablePatternTextsOf(text_blocks)]

LikelyTablePatterns ==
    << Cat(<<DotNum, Plus(SpaceC), DotNum, EndAnchor>>),
       Cat(<<Plus(DigitC), C("."), Plus(DigitC), Star(AnyChar), Rep(DigitC, 4, 4)>>),
       AtLeast(Cat(<<Rep(WordC, 1, 3), Plus(SpaceC)>>), 3),
       Cat(<<C(CopyrightSign), Star(AnyChar), LitCi("International"), Star(AnyChar),
             LitCi("Board")>>),
       Cat(<<LitCi("Page"), Plus(SpaceC), Plus(DigitC)>>),
       Cat(<<LitCi("May"), Plus(SpaceC), Plus(DigitC), C(","), Plus(SpaceC),
             Rep(DigitC, 4, 4)>>),
       Cat(<<Rep(WordC, 1, 5), EndAnchor>>) >>

is_likely_table_content(cf, text) ==
    LET t == Strip(text)
    IN  t \in cf.table_patterns \/ AnyMatch(LikelyTablePatterns, t)

TocHeadingPatterns ==
    << Cat(<<Lit("table"), Plus(SpaceC), Lit("of"), Plus(SpaceC), Lit("content"),
             Opt(C("s")), EndAnchor>>),
       Cat(<<Lit("content"), Opt(C("s")), EndAnchor>>),
       Cat(<<Lit("index"), EndAnchor>>),
       Cat(<<Star(SpaceC), Lit("toc"), Star(SpaceC), EndAnchor>>) >>

is_toc_heading(text) == AnyMatch(TocHeadingPatterns, Lower(Strip(text)))

TocEntryPatterns ==
    << Cat(<<Plus(AnyChar), AtLeast(C("."), 3), Plus(AnyChar), Plus(DigitC),
             Star(SpaceC), EndAnchor>>),
       Cat(<<Plus(AnyChar), Plus(SpaceC), Plus(DigitC), Star(SpaceC), EndAnchor>>),
       Cat(<<DotNum, Plus(SpaceC), Plus(AnyChar), Plus(SpaceC), Plus(DigitC),
             Star(SpaceC), EndAnchor>>),
       Cat(<<Plus(NotCls({"."})), AtLeast(Cls({"."} \cup SpaceSet), 2), Plus(DigitC),
             Star(SpaceC), EndAnchor>>),
       Cat(<<Rep(DigitC, 1, 3), Star(SpaceC), EndAnchor>>),
       Cat(<<Star(AnyChar), Opt(Cat(<<LitCi("see"), Plus(SpaceC)>>)), LitCi("page"),
             Plus(SpaceC), Plus(DigitC)>>),
       Cat(<<Plus(DigitC), C("."), Plus(DigitC), Plus(SpaceC), Plus(DigitC), C("."),
             Plus(DigitC), Plus(SpaceC), Plus(DigitC)>>),
       Cat(<<Plus(AnyChar), AtLeast(Cls({".", "-", "_"} \cup SpaceSet), 2),
             Plus(DigitC), Star(SpaceC), EndAnchor>>),
       Cat(<<Plus(RomanC), Plus(Cls({"."} \cup SpaceSet)), Plus(AnyChar), Plus(SpaceC),
             Plus(DigitC), Star(SpaceC), EndAnchor>>) >>

ShortNumber == Cat(<<WordBoundary, Rep(DigitC, 1, 3), WordBoundary>>)

is_toc_entry(text) ==
    LET t == Strip(text)
    IN  IF Len(t) < 3 THEN FALSE
        ELSE \/ AnyMatch(TocEntryPatterns, t)
             \/ /\ ReSearch(ShortNumber, t)
                /\ \E w \in Words(t) : IsAlpha(w) /\ Len(w) > 2
                /\ \E w \in Words(t) : IsDigit(w)

\* any(re.search(pattern, text) for pattern in patterns)
AnySearch(patterns, text) == \E i \in 1..Len(patterns) : ReSearch(patterns[i], text)

\* header_patterns of _has_table_headers
HeaderPatterns ==
    << Alt(<<Lit("name"), Lit("title"), Lit("description"), Lit("type"), Lit("date"),
             Lit("version"), Lit("status"), Lit("amount"), Lit("quantity"), Lit("id"),
             Cat(<<Lit("no"), Opt(C("."))>>)>>),
       Alt(<<Cat(<<C("s"), Opt(C(".")), Lit("no"), Opt(C("."))>>),
             Cat(<<Lit("sr"), Opt(C(".")), Lit("no"), Opt(C("."))>>),
             Lit("item"), Lit("category"), Lit("remarks"), Lit("comments")>>),
       Alt(<<Lit("page"), Lit("chapter"), Lit("section"), Lit("subsection")>>) >>

\* a cell of table.extract() is a string; "" stands for None as well
has_table_headers(table_data) ==
    IF Len(table_data) < 2 THEN FALSE
    ELSE LET first_row == table_data[1]
             header_like == {i \in 1..Len(first_row) :
                                /\ Strip(first_row[i]) # ""
                                /\ AnySearch(HeaderPatterns, Strip(Lower(first_row[i])))}
         IN  /\ first_row # <<>>
             /\ 2 * Cardinality(header_like) >= Len(first_row)

NumberPattern ==
    Cat(<<Plus(DigitC), Opt(Cat(<<C("."), Plus(DigitC)>>)), EndAnchor>>)
DatePattern ==
    Alt(<<Cat(<<Rep(DigitC, 1, 2), Cls({"/", "-"}), Rep(DigitC, 1, 2), Cls({"/", "-"}),
                Rep(DigitC, 2, 4)>>),
          Cat(<<Rep(DigitC, 4, 4), C("-"), Rep(DigitC, 2, 2), C("-"),
                Rep(DigitC, 2, 2)>>)>>)

has_structured_data(table_data) ==
    IF Len(table_data) < 2 THEN FALSE
    ELSE LET total_columns == Len(table_data[1])
             \* the rows below the header with a value in column col_idx
             valued(col_idx) ==
                {r \in 2..Len(table_data) :
                    col_idx <= Len(table_data[r]) /\ table_data[r][col_idx] # ""}
             value(r, col_idx) == Strip(table_data[r][col_idx])
             numeric_count(col_idx) ==
                Cardinality({r \in valued(col_idx) :
                                ReMatch(NumberPattern, value(r, col_idx))})
             date_count(col_idx) ==
                Cardinality({r \in valued(col_idx) :
                                ReSearch(DatePattern, value(r, col_idx))})
         IN  \E col_idx \in 1..total_columns :
                /\ valued(col_idx) # {}
                /\ \/ 10 * numeric_count(col_idx) >= 7 * Cardinality(valued(col_idx))
                   \/ 2 * date_count(col_idx) >= Cardinality(valued(col_idx))

\* a table of pdfplumber: its bbox, and what table.extract() gives or that
\* it raises
is_valid_table_structure(table) ==
    IF table.extract_raises
    THEN /\ table.bbox[3] - table.bbox[1] > 100
         /\ table.bbox[4] - table.bbox[2] > 50
    ELSE LET table_data == table.data
             rows == Len(table_data)
             cols == IF rows > 0 THEN Len(table_data[1]) ELSE 0
             cells == UNION {{<<r, c>> : c \in 1..Len(table_data[r])} : r \in 1..rows}
             non_empty_cells ==
                Cardinality({rc \in cells : Strip(table_data[rc[1]][rc[2]]) # ""})
             total_cells == Cardinality(cells)
         IN  IF table_data = <<>> THEN FALSE
             ELSE IF rows < 2 \/ cols < 2 THEN FALSE
             ELSE IF total_cells > 0 /\ 10 * non_empty_cells < 3 * total_cells THEN FALSE
             ELSE has_table_headers(table_data) \/ has_structured_data(table_data)

\* self.table_regions after identify_visual_tables(pdf_path): pdf_path.pages
\* are the tables pdfplumber finds on each page, pdf_path.completed the
\* number of pages done when pdfplumber raised (all of them when it did not).
\* self.visual_tables, which only get_table_debug_info reads, is left out.
identify_visual_tables(cf, pdf_path) ==
    LET old == cf.table_regions
        regions(page_num) ==
            LET tables == SelectSeq(pdf_path.pages[page_num], is_valid_table_structure)
            IN  [i \in 1..Len(tables) |-> tables[i].bbox]
    IN  [cf EXCEPT !.table_regions =
            [page_num \in DOMAIN old \cup 1..pdf_path.completed |->
                IF page_num <= pdf_path.completed THEN regions(page_num)
                ELSE old[page_num]]]

\* tolerance = 5
is_text_in_table(cf, text_block) ==
    IF text_block.page \notin DOMAIN cf.table_regions THEN FALSE
    ELSE \E i \in 1..Len(cf.table_regions[text_block.page]) :
            LET table_bbox == cf.table_regions[text_block.page][i]
                text_bbox  == text_block.bbox
            IN  /\ text_bbox[1] >= table_bbox[1] - 5
                /\ text_bbox[3] <= table_bbox[3] + 5
                /\ text_bbox[2] >= table_bbox[2] - 5
                /\ text_bbox[4] <= table_bbox[4] + 5

is_valid_content_block(cf, block) ==
    LET text == Strip(block.text)
    IN  IF \/ Len(text) < 5
           \/ text \in cf.table_patterns
           \/ text \in cf.headers_footers
           \/ text \in cf.toc_content
           \/ is_page_number(text)
           \/ is_likely_table_content(cf, text)
        THEN FALSE
        ELSE IF is_text_in_table(cf, block) THEN FALSE
        ELSE IF is_toc_heading(text) THEN TRUE
        ELSE IF is_toc_entry(text) THEN FALSE
        ELSE TRUE

\* the band of identify_headers_footers a block falls in
Band(block) ==
    IF 100 * block.bbox[2] < 15 * block.page_height THEN "top"
    ELSE IF 100 * block.bbox[2] > 85 * block.page_height THEN "bottom"
    ELSE "none"

\* top_counter[text], bottom_counter[text]
BandCount(text_blocks, band, text) ==
    Cardinality({i \in 1..Len(text_blocks) :
        Band(text_blocks[i]) = band /\ Strip(text_blocks[i].text) = text})

FooterKeywords ==
    {"copyright", CopyrightSign, "page", "confidential", "proprietary",
     "all rights reserved"}

\* HeaderFooterTextsOf with min_occurrences = 2 whatever the number of pages
HeaderFooterTextsOf_TwoOccurrences(text_blocks) ==
    LET texts  == {Strip(text_blocks[i].text) : i \in 1..Len(text_blocks)}
        npages == Cardinality({text_blocks[i].page : i \in 1..Len(text_blocks)})
        top(t) == BandCount(text_blocks, "top", t)
        bot(t) == BandCount(text_blocks, "bottom", t)
    IN  {t \in texts : top(t) >= 2 /\ ~is_page_number(t)}
        \cup {t \in texts : /\ bot(t) >= 2
                /\ \/ Len(t) < 50 \/ is_page_number(t)
                   \/ AnyKeyword(FooterKeywords, t) \/ 10 * bot(t) >= 8 * npages}

HeaderFooterTextsOf(text_blocks) ==
    LET texts  == {Strip(text_blocks[i].text) : i \in 1..Len(text_blocks)}
        npages == Cardinality({text_blocks[i].page : i \in 1..Len(text_blocks)})
        third  == npages \div 3
        min_occurrences == IF third > 2 THEN third ELSE 2
        top(t) == BandCount(text_blocks, "top", t)
        bot(t) == BandCount(text_blocks, "bottom", t)
    IN  {t \in texts : top(t) >= min_occurrences /\ ~is_page_number(t)}
        \cup
        {t \in texts :
            /\ bot(t) >= min_occurrences
            /\ \/ Len(t) < 50
               \/ is_page_number(t)
               \/ AnyKeyword(FooterKeywords, t)
               \/ 10 * bot(t) >= 8 * npages}

identify_headers_footers(cf, text_blocks) ==
    [cf EXCEPT !.headers_footers = @ \cup HeaderFooterTextsOf(text_blocks)]

\* self.toc_pages and self.toc_content after identify_table_of_contents
identify_table_of_contents(cf, text_blocks) ==
    LET around(page) == {page, page + 1} \cup (IF page > 1 THEN {page - 1} ELSE {})
        toc_pages ==
            cf.toc_pages \cup
            UNION {around(text_blocks[i].page) :
                    i \in {j \in 1..Len(text_blocks) : is_toc_heading(text_blocks[j].text)}}
        entries ==
            {Strip(text_blocks[i].text) :
                i \in {j \in 1..Len(text_blocks) :
                        /\ text_blocks[j].page \in toc_pages
                        /\ ~is_toc_heading(Strip(text_blocks[j].text))
                        /\ is_toc_entry(Strip(text_blocks[j].text))}}
    IN  [cf EXCEPT !.toc_pages = toc_pages, !.toc_content = @ \cup entries]

\* pdf_path is None, or names a file pdfplumber is run on
process_all_filters(cf, text_blocks, pdf_path) ==
    LET visual == IF pdf_path.is_none THEN cf ELSE identify_visual_tables(cf, pdf_path)
    IN  identify_headers_footers(
            identify_table_patterns(
                identify_table_of_contents(visual, text_blocks), text_blocks),
            text_blocks)

(***************************************************************************)
(* Python values                                                           *)
(***************************************************************************)
\* an Optional[str]: None, or the string text
None      == [is_none |-> TRUE, text |-> ""]
Some(str) == [is_none |-> FALSE, text |-> str]
\* bool(value) of an Optional[str]
Truthy(opt) == ~opt.is_none /\ opt.text # ""

Range(seq) == {seq[i] : i \in 1..Len(seq)}

\* sorted(S, reverse=True)
RECURSIVE SortedDesc(_)
SortedDesc(S) ==
    IF S = {} THEN <<>>
    ELSE <<SetMax(S)>> \o SortedDesc(S \ {SetMax(S)})

\* Counter(seq).most_common(1)[0][0]: the most frequent value, the first one
\* met among equally frequent ones
MostCommon(seq) ==
    LET count(v) == Cardinality({i \in 1..Len(seq) : seq[i] = v})
        first(v) == SetMin({i \in 1..Len(seq) : seq[i] = v})
    IN  CHOOSE v \in Range(seq) :
            \A w \in Range(seq) :
                \/ count(v) > count(w)
                \/ (count(v) = count(w) /\ first(v) <= first(w))

(***************************************************************************)
(* font_analyzer.py: FontAnalyzer                                          *)
(***************************************************************************)
\* self.font_stats = None
NoFontStats ==
    [is_none |-> TRUE, body_font_size |-> 0, body_font_family |-> "",
     font_size_hierarchy |-> <<>>, unique_sizes |-> <<>>]

\* the dict analyze_font_patterns returns when no block is valid content
FallbackFontStats ==
    [is_none |-> FALSE, body_font_size |-> 120, body_font_family |-> "Arial",
     font_size_hierarchy |-> <<>>, unique_sizes |-> <<>>]

ValidBlocks(cf, text_blocks) ==
    SelectSeq(text_blocks, LAMBDA block : is_valid_content_block(cf, block))

\* self.font_stats after analyze_font_patterns(text_blocks)
analyze_font_patterns(cf, fs, text_blocks) ==
    LET valid_blocks == ValidBlocks(cf, text_blocks)
    IN  IF valid_blocks = <<>> THEN fs
        ELSE LET font_sizes     == [i \in 1..Len(valid_blocks) |-> valid_blocks[i].font_size]
                 body_font_size == MostCommon(font_sizes)
                 unique_sizes   == SortedDesc(Range(font_sizes))
                 heading_sizes  == SelectSeq(unique_sizes, LAMBDA size : size > body_font_size)
                 font_families  == [i \in 1..Len(valid_blocks) |-> valid_blocks[i].font_family]
             IN  [is_none |-> FALSE,
                  body_font_size |-> body_font_size,
                  body_font_family |-> MostCommon(font_families),
                  font_size_hierarchy |-> heading_sizes \o <<body_font_size>>,
                  unique_sizes |-> unique_sizes]

\* flags & bit, for a power of two
HasFlag(flags, bit) == (flags \div bit) % 2 = 1

has_visual_distinction(fs, block) ==
    IF fs.is_none THEN FALSE
    ELSE \/ HasFlag(block.flags, 16)
         \/ HasFlag(block.flags, 2)
         \/ block.font_size > fs.body_font_size
         \/ block.font_family # fs.body_font_family

\* the level taken from the rank of the size in font_size_hierarchy
get_font_size_level_ByRank(fs, font_size) ==
    IF fs.is_none \/ fs.font_size_hierarchy = <<>> THEN 2
    ELSE LET larger_sizes == SelectSeq(fs.font_size_hierarchy,
                                       LAMBDA size : size > font_size)
         IN  IF Len(larger_sizes) >= 2 THEN 3 ELSE Len(larger_sizes) + 1

\* sizes are in tenths of a point: body_size + 2 is body_font_size + 20
get_font_size_level(fs, font_size) ==
    IF fs.is_none \/ fs.font_size_hierarchy = <<>> THEN 2
    ELSE IF font_size > fs.body_font_size + 20 THEN 1
    ELSE IF font_size > fs.body_font_size THEN 2
    ELSE 3

(***************************************************************************)
(* heading_classifier.py: HeadingClassifier                                *)
(***************************************************************************)
\* the body of detect_title ends after the early return: with a block on
\* page 1 or 2 the function returns None
detect_title(text_blocks) ==
    LET early_blocks == SelectSeq(text_blocks, LAMBDA b : b.page <= 2)
    IN  IF early_blocks = <<>> THEN Some("Untitled Document") ELSE None

\* the title test of is_valid_heading on a block's text
IsTitleOrPart(document_title, text) ==
    /\ Truthy(document_title)
    /\ LET clean_block_text == clean_heading_text(text)
           clean_title      == clean_heading_text(document_title.text)
       IN  \/ clean_block_text = clean_title
           \/ /\ Len(clean_block_text) > 5
              /\ Contains(clean_title, clean_block_text)
              /\ 10 * Len(clean_block_text) > 3 * Len(clean_title)

HeaderFooterKeywords ==
    {"copyright", CopyrightSign, "page", "confidential", "proprietary"}

SectionNames ==
    {"introduction", "overview", "content", "references",
     "acknowledgements", "history", "outcomes"}

NumberedHeading == Cat(<<Plus(DigitC), C(".")>>)
Subsection      == Cat(<<Plus(DigitC), C("."), Plus(DigitC)>>)

\* is_valid_heading without its test of the header/footer set
is_valid_heading_NoHeaderFooterTest(cf, fs, document_title, block) ==
    LET text == Strip(block.text)
    IN  IF IsTitleOrPart(document_title, text) THEN FALSE
        ELSE IF \/ Len(text) < 3
                \/ Len(text) > 200
                \/ text \in cf.table_patterns
                \/ is_likely_table_content(cf, text)
             THEN FALSE
        ELSE IF ~is_left_or_center_aligned(block) THEN FALSE
        ELSE /\ has_visual_distinction(fs, block)
             /\ \/ ReMatch(NumberedHeading, text)
                \/ ReMatch(Subsection, text)
                \/ AnyKeyword(SectionNames, text)
                \/ EndsWith(text, ":")
                \/ (Ch(text, 1) \in UpperSet /\ WordCount(text) <= 10)

\* is_valid_heading with long footer text accepted as soon as the
\* header/footer exception applies
is_valid_heading_FooterBypass(cf, fs, document_title, block) ==
    LET text == Strip(block.text)
    IN  IF /\ text \in cf.headers_footers
           /\ Len(text) > 30
           /\ is_footer_area(block)
           /\ ~AnyKeyword(HeaderFooterKeywords, text)
        THEN TRUE
        ELSE /\ text \notin cf.headers_footers
             /\ is_valid_heading_NoHeaderFooterTest(cf, fs, document_title, block)

is_valid_heading(cf, fs, document_title, block) ==
    LET text == Strip(block.text)
    IN  IF IsTitleOrPart(document_title, text) THEN FALSE
        ELSE IF \/ Len(text) < 3
                \/ Len(text) > 200
                \/ text \in cf.table_patterns
                \/ is_likely_table_content(cf, text)
             THEN FALSE
        ELSE IF /\ text \in cf.headers_footers
                /\ ~ (/\ Len(text) > 30
                      /\ is_footer_area(block)
                      /\ ~AnyKeyword(HeaderFooterKeywords, text))
             THEN FALSE
        ELSE IF ~is_left_or_center_aligned(block) THEN FALSE
        ELSE /\ has_visual_distinction(fs, block)
             /\ \/ ReMatch(NumberedHeading, text)
                \/ ReMatch(Subsection, text)
                \/ AnyKeyword(SectionNames, text)
                \/ EndsWith(text, ":")
                \/ (Ch(text, 1) \in UpperSet /\ WordCount(text) <= 10)

\* f"H{font_level}"
LevelName(font_level) ==
    CASE font_level = 1 -> "H1"
      [] font_level = 2 -> "H2"
      [] font_level = 3 -> "H3"
      [] OTHER -> "H?"

\* determine_heading_level without the tests of the text
determine_heading_level_ByFontOnly(fs, block) ==
    LevelName(get_font_size_level(fs, block.font_size))

determine_heading_level(fs, block) ==
    LET text == Strip(block.text)
    IN  IF ReMatch(NumberedHeading, text) THEN "H1"
        ELSE IF ReMatch(Subsection, text) THEN "H2"
        ELSE IF text \in {"Revision History", "Table of Contents", "Acknowledgements"}
             THEN "H1"
        ELSE LevelName(get_font_size_level(fs, block.font_size))

\* the headings list classify_headings builds; src is the set of block
\* positions a heading was made from (history only, not a field of the code)
classify_headings(cf, fs, document_title, text_blocks) ==
    LET accepted == SelectSeq([i \in 1..Len(text_blocks) |-> i],
                        LAMBDA i : is_valid_heading(cf, fs, document_title, text_blocks[i]))
    IN  [k \in 1..Len(accepted) |->
            LET block == text_blocks[accepted[k]]
            IN  [level |-> determine_heading_level(fs, block),
                 text |-> clean_heading_text(block.text),
                 page |-> block.page,
                 font_size |-> block.font_size,
                 bbox |-> block.bbox,
                 src |-> {accepted[k]}]]

\* a final pass that cleans every heading and drops none
validate_and_clean_headings_Unfiltered(cf, document_title, headings) ==
    [k \in 1..Len(headings) |->
        [level |-> headings[k].level,
         text |-> clean_heading_text(Strip(headings[k].text)),
         page |-> headings[k].page,
         src |-> headings[k].src]]

validate_and_clean_headings(cf, document_title, headings) ==
    LET keep(heading) ==
            LET text == Strip(heading.text)
            IN  /\ ~(Len(text) < 3 \/ Len(text) > 200)
                /\ ~is_likely_table_content(cf, text)
                /\ ~IsTitleOrPart(document_title, text)
                /\ Len(clean_heading_text(text)) >= 3
        kept == SelectSeq(headings, keep)
    IN  [k \in 1..Len(kept) |->
            [level |-> kept[k].level,
             text |-> clean_heading_text(Strip(kept[k].text)),
             page |-> kept[k].page,
             src |-> kept[k].src]]

(***************************************************************************)
(* text_processor.py: TextProcessor                                        *)
(***************************************************************************)
\* should_merge_headings without its test of the combined length
should_merge_headings_AnyLength(heading1, heading2) ==
    IF heading1.page # heading2.page \/ heading1.level # heading2.level THEN FALSE
    ELSE IF heading2.bbox[2] - heading1.bbox[4] > 30 THEN FALSE
    ELSE IF EndsWith(RStrip(heading1.text), ".") THEN FALSE
    ELSE TRUE

should_merge_headings(heading1, heading2) ==
    IF heading1.page # heading2.page \/ heading1.level # heading2.level THEN FALSE
    ELSE IF heading2.bbox[2] - heading1.bbox[4] > 30 THEN FALSE
    ELSE IF EndsWith(RStrip(heading1.text), ".") THEN FALSE
    ELSE IF Len(heading1.text) + Len(heading2.text) > 150 THEN FALSE
    ELSE TRUE

\* the loop of merge_multiline_headings from position i on
RECURSIVE MergeFrom(_, _)
MergeFrom(headings, i) ==
    IF i > Len(headings) THEN <<>>
    ELSE IF i + 1 <= Len(headings) /\ should_merge_headings(headings[i], headings[i + 1])
         THEN << [level |-> headings[i].level,
                  text |-> Strip(headings[i].text \o " " \o headings[i + 1].text),
                  page |-> headings[i].page,
                  src |-> headings[i].src \cup headings[i + 1].src] >>
              \o MergeFrom(headings, i + 2)
    ELSE << [level |-> headings[i].level,
             text |-> headings[i].text,
             page |-> headings[i].page,
             src |-> headings[i].src] >>
         \o MergeFrom(headings, i + 1)

\* merge_multiline_headings with the two texts of a merged pair exchanged
RECURSIVE MergeFrom_Exchanged(_, _)
MergeFrom_Exchanged(headings, i) ==
    IF i > Len(headings) THEN <<>>
    ELSE IF i + 1 <= Len(headings) /\ should_merge_headings(headings[i], headings[i + 1])
         THEN << [level |-> headings[i].level,
                  text |-> Strip(headings[i + 1].text \o " " \o headings[i].text),
                  page |-> headings[i].page,
                  src |-> headings[i].src \cup headings[i + 1].src] >>
              \o MergeFrom_Exchanged(headings, i + 2)
    ELSE << [level |-> headings[i].level,
             text |-> headings[i].text,
             page |-> headings[i].page,
             src |-> headings[i].src] >>
         \o MergeFrom_Exchanged(headings, i + 1)

merge_multiline_headings_Exchanged(headings) == MergeFrom_Exchanged(headings, 1)

merge_multiline_headings(headings) == MergeFrom(headings, 1)

\* sorted(line["spans"], key=lambda s: s["bbox"][0]): the positions of the
\* spans in ascending x0, equal x0 in the order of the line
RECURSIVE SortedSpans(_, _)
SortedSpans(spans, todo) ==
    IF todo = {} THEN <<>>
    ELSE LET first == CHOOSE i \in todo : \A j \in todo :
                        \/ spans[i].bbox[1] < spans[j].bbox[1]
                        \/ spans[i].bbox[1] = spans[j].bbox[1] /\ i <= j
         IN  <<spans[first]>> \o SortedSpans(spans, todo \ {first})

\* the loop over the sorted spans of a line from span i on; prev_span_end is
\* 0 for None, which is as false as a right edge at 0
RECURSIVE LineText(_, _, _, _)
LineText(sorted_spans, i, line_text, prev_span_end) ==
    IF i > Len(sorted_spans) THEN line_text
    ELSE LET span   == sorted_spans[i]
             spaced == IF /\ prev_span_end # 0
                          /\ span.bbox[1] - prev_span_end > 3
                          /\ ~EndsWith(line_text, " ")
                       THEN line_text \o " " ELSE line_text
         IN  LineText(sorted_spans, i + 1, spaced \o span.text, span.bbox[3])

\* " ".join(all_text) of the stripped texts of the lines that are not blank
reconstruct_block_text(block) ==
    LET line_text(k) ==
            LET spans == block.lines[k].spans
            IN  Strip(LineText(SortedSpans(spans, DOMAIN spans), 1, "", 0))
        all_text == SelectSeq([k \in DOMAIN block.lines |-> line_text(k)],
                              LAMBDA t : t # "")
    IN  Concat([k \in DOMAIN all_text |->
                    IF k = 1 THEN all_text[k] ELSE " " \o all_text[k]],
               1, Len(all_text))

\* the text of the text block extract_formatted_text_blocks makes of a block
\* of the page, none when the block is dropped
extract_formatted_text_blocks(block) ==
    LET block_text == reconstruct_block_text(block)
    IN  IF Strip(block_text) = "" THEN None ELSE Some(Strip(block_text))

(***************************************************************************)
(* Input documents: the block lists extract_formatted_text can deliver     *)
(***************************************************************************)
\* the most blocks of one document
MaxBlocks == 3
\* the most extract_outline calls on one PDFOutlineExtractor
MaxRuns == 2

\* a text block of extract_formatted_text_blocks on a 600 x 800 page
Blk(text, page, x0, y0, font_size, font_family, flags) ==
    [text |-> text, font_size |-> font_size, font_family |-> font_family,
     flags |-> flags, bbox |-> <<x0, y0, x0 + 200, y0 + 20>>, page |-> page,
     page_height |-> 800, page_width |-> 600]

LongFooter   == "Summary of the annual findings here"
Confidential == "Confidential internal use only document"
LongText     == "A" \o Repeat("b", 200)

\* the blocks documents are made of, in reading order: headings, a table
\* row, a bulleted label, an over-long line
CorePool ==
    << Blk("plain body text of the report", 1, 72, 300, 110, "Arial", 0),
       Blk("Project Summary",               2, 72, 300, 140, "Arial", 16),
       Blk("Detailed Scope",                2, 72, 330, 140, "Arial", 16),
       Blk("Syllabus Days",                 2, 72, 400, 140, "Arial", 16),
       Blk("- A:",                          2, 72, 500, 140, "Arial", 16),
       Blk(LongText,                        2, 72, 600, 140, "Arial", 16),
       Blk("Untitled",                      3, 72, 200, 140, "Arial", 16) >>

\* texts repeated in the bottom band of two pages
FooterPool ==
    << Blk("plain body text of the report", 1, 72, 300, 110, "Arial", 0),
       Blk(LongFooter,                      1, 72, 700, 110, "Arial", 16),
       Blk(Confidential,                    1, 72, 720, 110, "Arial", 16),
       Blk("Project Summary",               2, 72, 300, 140, "Arial", 16),
       Blk(LongFooter,                      2, 72, 700, 110, "Arial", 16),
       Blk(Confidential,                    2, 72, 720, 110, "Arial", 16) >>

\* sorted(S)
RECURSIVE SortedAsc(_)
SortedAsc(S) ==
    IF S = {} THEN <<>>
    ELSE <<SetMin(S)>> \o SortedAsc(S \ {SetMin(S)})

\* the documents of at most MaxBlocks blocks of a pool, blocks in pool order
DocsFrom(pool) ==
    {[k \in 1..Cardinality(S) |-> pool[SortedAsc(S)[k]]] :
        S \in {T \in SUBSET (1..Len(pool)) : Cardinality(T) <= MaxBlocks}}

\* a document with a contents page, one of its entries in bold, and the
\* header cell of a ruled table
TablePool ==
    << Blk("plain body text of the report", 1, 72, 300, 110, "Arial", 0),
       Blk("Contents",                      1, 72, 100, 140, "Arial", 16),
       Blk("Scope ..... 4",                 2, 72, 200, 110, "Arial", 16),
       Blk("Status",                        2, 72, 400, 140, "Arial", 16) >>

\* numbered headings one point above the body size, a canonical section
\* title and the heading of an index page
LevelPool ==
    << Blk("plain body text of the report", 1, 72, 300, 110, "Arial", 0),
       Blk("1. Introduction",               2, 72, 300, 120, "Arial", 0),
       Blk("2.1 Scope",                     3, 72, 300, 120, "Arial", 0),
       Blk("Revision History",              3, 72, 400, 120, "Arial", 0),
       Blk("Index",                         3, 72, 500, 140, "Arial", 16) >>

\* a long line in the bottom band of three pages: bold, plain, and bold at
\* the right edge of the page
CarveOutPool ==
    << Blk("plain body text of the report", 1, 72,  300, 110, "Arial", 0),
       Blk(LongFooter,                      1, 72,  700, 110, "Arial", 16),
       Blk(LongFooter,                      2, 72,  700, 110, "Arial", 0),
       Blk(LongFooter,                      3, 500, 700, 110, "Arial", 16) >>

\* the largest number of pages of a document with a running line
MaxPages == 9

\* lines of 50 characters and more, without and with a boilerplate keyword
LongLine    == "Results of the regional survey for the current year"
LongKeyword == "Confidential draft of the regional survey, not final"

\* a document of n pages of body text with the line text at height y0 on its
\* first k pages, and a second time on page 1 when twice is set
RunningLineDoc(n, k, text, y0, twice) ==
    [p \in 1..n |-> Blk("plain body text of the report", p, 72, 300, 110, "Arial", 0)]
    \o [p \in 1..k |-> Blk(text, p, 72, y0, 110, "Arial", 0)]
    \o (IF twice THEN <<Blk(text, 1, 72, y0 + 30, 110, "Arial", 0)>> ELSE <<>>)

\* running lines in the top band (y0 = 50) and in the bottom band (y0 = 700)
PageDocs ==
    UNION {{RunningLineDoc(n, k, text, y0, twice) :
                k \in 0..n,
                text \in {"Annual Report", "Page 3", LongLine, LongKeyword},
                y0 \in {50, 700}, twice \in BOOLEAN}
            : n \in 1..MaxPages}

\* headings of 75 and 76 characters
Text75 == "A" \o Repeat("b", 74)
Text76 == "C" \o Repeat("d", 75)

\* three lines of one heading 10 units apart on page 2, and three long
\* headings 10 units apart on page 3
MergePool ==
    << Blk("Annual Report Of",    2, 72, 300, 140, "Arial", 16),
       Blk("The Regional Office", 2, 72, 330, 140, "Arial", 16),
       Blk("For The Year",        2, 72, 360, 140, "Arial", 16),
       Blk(Text75,                3, 72, 300, 140, "Arial", 16),
       Blk(Text75,                3, 72, 330, 140, "Arial", 16),
       Blk(Text76,                3, 72, 360, 140, "Arial", 16) >>

CoreDocs   == DocsFrom(CorePool)
FooterDocs == DocsFrom(FooterPool)
TableDocs  == DocsFrom(TablePool)
LevelDocs  == DocsFrom(LevelPool)

DocsOf(s) ==
    CASE s = "core"   -> CoreDocs
      [] s = "footer" -> FooterDocs
      [] s = "tables" -> TableDocs
      [] s = "levels" -> LevelDocs
      [] s = "carveout" -> DocsFrom(CarveOutPool)
      [] s = "pages" -> PageDocs
      [] s = "merge" -> DocsFrom(MergePool)

\* tables pdfplumber may report on page 2 of a document
Table(bbox, data) == [bbox |-> bbox, data |-> data, extract_raises |-> FALSE]

GoodTable ==
    Table(<<50, 380, 550, 480>>,
          << <<"Name", "Date", "Status", "Amount">>,
             <<"Ann", "1/2/2024", "open", "10">>,
             <<"Bob", "", "", "">> >>)
SparseTable ==
    Table(<<50, 380, 550, 480>>,
          << <<"Name", "", "", "">>, <<"", "", "", "7">> >>)
OneColumn ==
    Table(<<50, 380, 550, 480>>, << <<"Name">>, <<"Ann">>, <<"Bob">> >>)
PlainGrid ==
    Table(<<50, 380, 550, 480>>, << <<"alpha", "beta">>, <<"gamma", "delta">> >>)
Unreadable ==
    [bbox |-> <<40, 390, 560, 470>>, data |-> <<>>, extract_raises |-> TRUE]

\* the pdf_path argument of process_all_filters: None, or a two-page file
\* with what pdfplumber does on it (tables on page 2, or one table on page 1
\* and a failure on page 2)
NoPath == [is_none |-> TRUE, pages |-> <<>>, completed |-> 0]
Path(page2, completed) ==
    [is_none |-> FALSE, pages |-> << <<>>, page2 >>, completed |-> completed]

PdfPaths ==
    { NoPath,
      Path(<<>>, 0),
      Path(<<>>, 2),
      Path(<<GoodTable>>, 1),
      Path(<<GoodTable>>, 2),
      [is_none |-> FALSE, completed |-> 1,
       pages |-> << <<[GoodTable EXCEPT !.bbox = <<50, 280, 550, 380>>]>>, <<>> >>],
      Path(<<SparseTable, OneColumn, PlainGrid>>, 2),
      Path(<<Unreadable>>, 2) }

(***************************************************************************)
(* pdf_extractor.py: PDFOutlineExtractor and extract_pdf_outline           *)
(***************************************************************************)
VARIABLES
    content_filter,   \* ContentFilter: its sets and table regions
    font_stats,       \* FontAnalyzer.font_stats
    document_title,   \* HeadingClassifier.document_title
    pc,               \* position in extract_outline / extract_pdf_outline
    entry,            \* the function called: extract_outline or extract_pdf_outline
    pdf,              \* the blocks of the document at pdf_path
    text_blocks,      \* locals of extract_outline
    title,
    headings,
    result,           \* the returned record
    runs,             \* extract_outline calls made on this extractor
    faulted,          \* history: a stage of this call raised
    rerun,            \* history: this call repeats the previous call's document
    prev_result,      \* history: the previous call's result, for a rerun
    suite,            \* the pool the documents are drawn from
    pdf_path,         \* the pdf_path of a process_all_filters call in progress
    toc_detected,     \* history: identify_table_of_contents ran on this filter
    batch,            \* process_pdfs: the files, their workers and the results
    call              \* a call of a function of utils.py or text_processor.py

vars == <<content_filter, font_stats, document_title, pc, entry, pdf, text_blocks,
          title, headings, result, runs, faulted, rerun, prev_result, suite,
          pdf_path, toc_detected, batch, call>>

\* what a step of extract_outline leaves alone
env == <<suite, pdf_path, toc_detected, batch, call>>

extractor == <<content_filter, font_stats, document_title>>
locals    == <<text_blocks, title, headings>>

\* ContentFilter.__init__
\* process_pdfs not running
NoBatch == [main |-> "off"]

\* no function called on its own
NoCall == [fn |-> "none"]

NewContentFilter ==
    [headers_footers |-> {}, table_patterns |-> {}, toc_content |-> {},
     toc_pages |-> {}, table_regions |-> <<>>]

EmptyResult == [title |-> Some("Empty Document"), outline |-> <<>>]
ErrorResult == [title |-> Some("Error Processing Document"), outline |-> <<>>]
NoResult    == [title |-> None, outline |-> <<>>]

\* font analysis moved before the header/footer scan
StageOrder_FontFirst ==
    <<"extract", "table_patterns", "font", "headers_footers", "title",
      "classify", "merge", "validate">>

\* the steps of extract_outline, in the order of the code
StageOrder ==
    <<"extract", "table_patterns", "headers_footers", "font", "title",
      "classify", "merge", "validate">>

Stages == Range(StageOrder)

\* where a call goes when extract_outline returns
Returned == IF entry = "extract_pdf_outline" THEN "output" ELSE "done"

\* the step after stage s
After(s) ==
    LET i == CHOOSE j \in 1..Len(StageOrder) : StageOrder[j] = s
    IN  IF i = Len(StageOrder) THEN Returned ELSE StageOrder[i + 1]

\* a new extractor, no call in progress, documents drawn from one of suites
InitOn(suites) ==
    /\ content_filter = NewContentFilter
    /\ font_stats = NoFontStats
    /\ document_title = None
    /\ pc = "idle"
    /\ entry = "extract_outline"
    /\ pdf = <<>>
    /\ text_blocks = <<>>
    /\ title = None
    /\ headings = <<>>
    /\ result = NoResult
    /\ runs = 0
    /\ faulted = FALSE
    /\ rerun = FALSE
    /\ prev_result = NoResult
    /\ suite \in suites
    /\ pdf_path = NoPath
    /\ toc_detected = FALSE
    /\ batch = NoBatch
    /\ call = NoCall

Init == InitOn({"core", "footer", "levels", "carveout", "merge"})

\* PDFOutlineExtractor(): a new extractor replaces the one in use
NewExtractor ==
    /\ pc \in {"idle", "done"}
    /\ pc = "done" \/ extractor # <<NewContentFilter, NoFontStats, None>>
    /\ content_filter' = NewContentFilter
    /\ font_stats' = NoFontStats
    /\ document_title' = None
    /\ pc' = "idle"
    /\ entry' = "extract_outline"
    /\ runs' = 0
    /\ rerun' = FALSE
    /\ prev_result' = NoResult
    /\ faulted' = FALSE
    /\ result' = NoResult
    /\ pdf' = <<>>
    /\ toc_detected' = FALSE
    /\ UNCHANGED <<locals, suite, pdf_path, batch, call>>

\* extractor.extract_outline(pdf_path) on the extractor in use
StartExtractOutline ==
    /\ pc = "idle" \/ (pc = "done" /\ entry = "extract_outline")
    /\ runs < MaxRuns
    /\ \E d \in DocsOf(suite) :
        /\ pdf' = d
        /\ rerun' = (pc = "done" /\ ~faulted /\ d = pdf)
        /\ prev_result' = IF pc = "done" /\ ~faulted /\ d = pdf THEN result ELSE NoResult
    /\ pc' = "extract"
    /\ entry' = "extract_outline"
    /\ runs' = runs + 1
    /\ faulted' = FALSE
    /\ result' = NoResult
    /\ text_blocks' = <<>>
    /\ title' = None
    /\ headings' = <<>>
    /\ UNCHANGED <<extractor, env>>

\* extract_pdf_outline(pdf_path): the call makes its own extractor.  It
\* overwrites every variable, so it is taken from the idle state only.
StartExtractPdfOutline ==
    /\ pc = "idle"
    /\ \E d \in DocsOf(suite) : pdf' = d
    /\ content_filter' = NewContentFilter
    /\ font_stats' = NoFontStats
    /\ document_title' = None
    /\ pc' = "extract"
    /\ entry' = "extract_pdf_outline"
    /\ runs' = 1
    /\ rerun' = FALSE
    /\ prev_result' = NoResult
    /\ faulted' = FALSE
    /\ result' = NoResult
    /\ text_blocks' = <<>>
    /\ title' = None
    /\ headings' = <<>>
    /\ toc_detected' = FALSE
    /\ UNCHANGED <<suite, pdf_path, batch, call>>

\* extract_outline without its `if not text_blocks` return
ExtractFormattedText_NoEarlyReturn ==
    /\ pc = "extract"
    /\ result' = result
    /\ pc' = After("extract")
    /\ text_blocks' = pdf
    /\ UNCHANGED <<extractor, entry, pdf, title, headings, runs, faulted, rerun,
                   prev_result, env>>

\* Step 1, and the early return for a document without blocks.  The locals
\* of a call are dropped when it returns.
ExtractFormattedText ==
    /\ pc = "extract"
    /\ IF pdf = <<>>
       THEN /\ result' = EmptyResult
            /\ pc' = Returned
       ELSE /\ result' = result
            /\ pc' = After("extract")
    /\ text_blocks' = pdf
    /\ UNCHANGED <<extractor, entry, pdf, title, headings, runs, faulted, rerun,
                   prev_result, env>>

\* Step 2
IdentifyTablePatterns ==
    /\ pc = "table_patterns"
    /\ content_filter' = identify_table_patterns(content_filter, text_blocks)
    /\ pc' = After("table_patterns")
    /\ UNCHANGED <<font_stats, document_title, entry, pdf, locals, result, runs,
                   faulted, rerun, prev_result, env>>

\* Step 3
IdentifyHeadersFooters ==
    /\ pc = "headers_footers"
    /\ content_filter' = identify_headers_footers(content_filter, text_blocks)
    /\ pc' = After("headers_footers")
    /\ UNCHANGED <<font_stats, document_title, entry, pdf, locals, result, runs,
                   faulted, rerun, prev_result, env>>

\* Step 4
AnalyzeFontPatterns ==
    /\ pc = "font"
    /\ font_stats' = analyze_font_patterns(content_filter, font_stats, text_blocks)
    /\ pc' = After("font")
    /\ UNCHANGED <<content_filter, document_title, entry, pdf, locals, result, runs,
                   faulted, rerun, prev_result, env>>

\* Step 5
DetectTitle ==
    /\ pc = "title"
    /\ title' = detect_title(text_blocks)
    /\ pc' = After("title")
    /\ UNCHANGED <<extractor, entry, pdf, text_blocks, headings, result, runs,
                   faulted, rerun, prev_result, env>>

\* classify_headings that enters the texts of the headings it finds in
\* headers_footers
ClassifyHeadings_RecordsHeadings ==
    /\ pc = "classify"
    /\ document_title' = detect_title(text_blocks)
    /\ headings' = classify_headings(content_filter, font_stats,
                                     detect_title(text_blocks), text_blocks)
    /\ content_filter' =
         [content_filter EXCEPT !.headers_footers =
              @ \cup {headings'[i].text : i \in DOMAIN headings'}]
    /\ pc' = After("classify")
    /\ UNCHANGED <<font_stats, entry, pdf, text_blocks, title, result,
                   runs, faulted, rerun, prev_result, env>>

\* classify_headings without `self.document_title = detect_title(...)`
ClassifyHeadings_NoStoredTitle ==
    /\ pc = "classify"
    /\ headings' = classify_headings(content_filter, font_stats, document_title,
                                     text_blocks)
    /\ pc' = After("classify")
    /\ UNCHANGED <<extractor, entry, pdf, text_blocks, title, result, runs, faulted,
                   rerun, prev_result, env>>

\* Step 6: classify_headings stores the title, then filters the blocks
ClassifyHeadings ==
    /\ pc = "classify"
    /\ document_title' = detect_title(text_blocks)
    /\ headings' = classify_headings(content_filter, font_stats,
                                     detect_title(text_blocks), text_blocks)
    /\ pc' = After("classify")
    /\ UNCHANGED <<content_filter, font_stats, entry, pdf, text_blocks, title, result,
                   runs, faulted, rerun, prev_result, env>>

\* Step 7
MergeMultilineHeadings ==
    /\ pc = "merge"
    /\ headings' = merge_multiline_headings(headings)
    /\ pc' = After("merge")
    /\ UNCHANGED <<extractor, entry, pdf, text_blocks, title, result, runs, faulted,
                   rerun, prev_result, env>>

\* Step 8 and the return of the record
ValidateAndCleanHeadings ==
    /\ pc = "validate"
    /\ IF After("validate") \in Stages
       THEN /\ headings' = validate_and_clean_headings(content_filter, document_title,
                                                       headings)
            /\ UNCHANGED <<result, text_blocks, title>>
       ELSE /\ result' = [title |-> title,
                          outline |-> validate_and_clean_headings(content_filter,
                                          document_title, headings)]
            /\ text_blocks' = <<>>
            /\ title' = None
            /\ headings' = <<>>
    /\ pc' = After("validate")
    /\ UNCHANGED <<extractor, entry, pdf, runs, faulted, rerun, prev_result, env>>

\* an except clause that returns what the stages had produced so far
RaiseInStage_Partial ==
    /\ pc \in Stages
    /\ faulted' = TRUE
    /\ result' = [title |-> title, outline |-> headings]
    /\ pc' = Returned
    /\ text_blocks' = <<>>
    /\ title' = None
    /\ headings' = <<>>
    /\ UNCHANGED <<extractor, entry, pdf, runs, rerun, prev_result, env>>

\* a stage raises: the except clause of extract_outline returns the error record
RaiseInStage ==
    /\ pc \in Stages
    /\ faulted' = TRUE
    /\ result' = ErrorResult
    /\ pc' = Returned
    /\ text_blocks' = <<>>
    /\ title' = None
    /\ headings' = <<>>
    /\ UNCHANGED <<extractor, entry, pdf, runs, rerun, prev_result, env>>

\* extract_pdf_outline: keep the entries with a level of H1, H2 or H3
ValidateOutput ==
    /\ pc = "output"
    /\ result' = [result EXCEPT !.outline =
                    SelectSeq(@, LAMBDA heading : heading.level \in {"H1", "H2", "H3"})]
    /\ pc' = "done"
    /\ UNCHANGED <<extractor, entry, pdf, locals, runs, faulted, rerun, prev_result,
                   env>>

\* the owner of a new extractor calls
\* extractor.content_filter.process_all_filters(text_blocks, pdf_path) before
\* its first extract_outline: the arguments of the call
CallProcessAllFilters ==
    /\ pc = "idle"
    /\ \E d \in DocsOf(suite), path \in PdfPaths :
        /\ pdf' = d
        /\ pdf_path' = path
    /\ pc' = "filters"
    /\ UNCHANGED <<extractor, entry, locals, result, runs, faulted, rerun,
                   prev_result, suite, toc_detected, batch, call>>

\* process_all_filters on those arguments, and its return
ProcessAllFilters ==
    /\ pc = "filters"
    /\ content_filter' = process_all_filters(content_filter, pdf, pdf_path)
    /\ toc_detected' = TRUE
    /\ pc' = "idle"
    /\ pdf' = <<>>
    /\ pdf_path' = NoPath
    /\ UNCHANGED <<font_stats, document_title, entry, locals, result, runs,
                   faulted, rerun, prev_result, suite, batch, call>>

Next ==
    \/ NewExtractor
    \/ StartExtractOutline
    \/ StartExtractPdfOutline
    \/ ExtractFormattedText
    \/ IdentifyTablePatterns
    \/ IdentifyHeadersFooters
    \/ AnalyzeFontPatterns
    \/ DetectTitle
    \/ ClassifyHeadings
    \/ MergeMultilineHeadings
    \/ ValidateAndCleanHeadings
    \/ RaiseInStage
    \/ ValidateOutput

Spec == Init /\ [][Next]_vars

\* the extractor with callers that also run the filters of its content
\* filter themselves
InitFilters == InitOn({"tables"})

NextFilters ==
    \/ Next
    \/ CallProcessAllFilters
    \/ ProcessAllFilters

SpecFilters == InitFilters /\ [][NextFilters]_vars

\* extract_pdf_outline, a new extractor for each call, on documents of up
\* to MaxPages pages
InitPages == InitOn({"pages"})

NextPages ==
    \/ NewExtractor
    \/ StartExtractPdfOutline
    \/ ExtractFormattedText
    \/ IdentifyTablePatterns
    \/ IdentifyHeadersFooters
    \/ AnalyzeFontPatterns
    \/ DetectTitle
    \/ ClassifyHeadings
    \/ MergeMultilineHeadings
    \/ ValidateAndCleanHeadings
    \/ ValidateOutput

SpecPages == InitPages /\ [][NextPages]_vars

(***************************************************************************)
(* process_pdfs.py: the batch run                                          *)
(***************************************************************************)
\* the state of the extractor, which a batch step leaves alone
pipeline == <<extractor, pc, entry, pdf, locals, result, runs, faulted, rerun,
              prev_result, suite, pdf_path, toc_detected, call>>

\* the largest number of PDF files in the input directory
MaxFiles == 5

\* values of mp.cpu_count()
CpuCounts == {1, 2, 8}

\* num_workers = min(4, mp.cpu_count(), len(pdf_files))
num_workers(cpu_count, pdf_files) == SetMin({4, cpu_count, pdf_files})

\* the result record process_single_pdf returns for a file
FileResult(file, success) == [file |-> file, success |-> success]

\* the files whose future or call is in state s
FilesIn(s) == {f \in DOMAIN batch.future : batch.future[f] = s}

\* process_pdfs up to the choice between the loop and the pool, all files
\* submitted; main is "sequential", "pool", "summary" or "aborted"
ProcessPdfs ==
    /\ batch = NoBatch
    /\ \E pdf_files \in 0..MaxFiles, cpu_count \in CpuCounts :
        batch' = [main |-> IF pdf_files = 0 THEN "summary"
                           ELSE IF pdf_files = 1 \/ num_workers(cpu_count, pdf_files) = 1
                                THEN "sequential" ELSE "pool",
                  num_workers |-> num_workers(cpu_count, pdf_files),
                  future |-> [f \in 1..pdf_files |-> "pending"],
                  results |-> <<>>,
                  output |-> {}]
    /\ UNCHANGED pipeline

\* one round of the sequential loop: process_single_pdf(pdf_file) returns a
\* success or, from its except clause, a failure record, which is appended
ProcessSequentially ==
    /\ batch # NoBatch
    /\ batch.main = "sequential"
    /\ IF FilesIn("pending") = {}
       THEN batch' = [batch EXCEPT !.main = "summary"]
       ELSE LET f == SetMin(FilesIn("pending"))
            IN  \E success \in BOOLEAN :
                    batch' = [batch EXCEPT
                                !.future[f] = "collected",
                                !.results = Append(@, FileResult(f, success)),
                                !.output = IF success THEN @ \cup {f} ELSE @]
    /\ UNCHANGED pipeline

\* a free worker process of the pool takes the next submitted call
WorkerTakes ==
    /\ batch # NoBatch
    /\ batch.main = "pool"
    /\ FilesIn("pending") # {}
    /\ Cardinality(FilesIn("running")) < batch.num_workers
    /\ batch' = [batch EXCEPT !.future[SetMin(FilesIn("pending"))] = "running"]
    /\ UNCHANGED pipeline

\* process_single_pdf returns in a worker: the future holds its record
WorkerReturns ==
    /\ batch # NoBatch
    /\ \E f \in FilesIn("running"), success \in BOOLEAN :
        batch' = [batch EXCEPT
                    !.future[f] = IF success THEN "success" ELSE "failure",
                    !.output = IF success THEN @ \cup {f} ELSE @]
    /\ UNCHANGED pipeline

\* a worker process dies (killed, out of memory, a crash in native code):
\* the executor is broken, the other workers are terminated, and every
\* future not yet done is set to raise BrokenProcessPool
WorkerDies ==
    /\ batch # NoBatch
    /\ \E f \in FilesIn("running") :
        batch' = [batch EXCEPT !.future =
                    [g \in DOMAIN @ |->
                        IF g = f THEN "died"
                        ELSE IF @[g] \in {"pending", "running"} THEN "broken"
                        ELSE @[g]]]
    /\ UNCHANGED pipeline

\* one round of the as_completed loop: future.result() returns the record,
\* which is appended, or raises BrokenProcessPool, which ends process_pdfs
\* with the results list; after the last future the summary is printed
AsCompleted ==
    /\ batch # NoBatch
    /\ batch.main = "pool"
    /\ \/ \E f \in FilesIn("success") \cup FilesIn("failure") :
            batch' = [batch EXCEPT
                        !.future[f] = "collected",
                        !.results = Append(@, FileResult(f, batch.future[f] = "success"))]
       \/ /\ FilesIn("died") \cup FilesIn("broken") # {}
          /\ batch' = [batch EXCEPT !.main = "aborted", !.results = <<>>]
       \/ /\ FilesIn("collected") = DOMAIN batch.future
          /\ batch' = [batch EXCEPT !.main = "summary"]
    /\ UNCHANGED pipeline

InitBatch == InitOn({"core"})

NextBatch ==
    \/ ProcessPdfs
    \/ ProcessSequentially
    \/ WorkerTakes
    \/ WorkerReturns
    \/ WorkerDies
    \/ AsCompleted

SpecBatch == InitBatch /\ [][NextBatch]_vars

-----------------------------------------------------------------------------
\* clean_heading_text and reconstruct_block_text called on their own

\* heading texts: bullets and spacing in front, trailing periods and dot
\* leaders behind
HeadingTexts ==
    {lead \o body \o tail :
        lead \in {"", "- ", BulletGlyph \o " ", "  "},
        body \in {"Overview", "Part A", "and so on etc", "The End",
                  "Section one. ", "Summary  of results", "Fig"},
        tail \in {"", ".", "..", "...", " ....", ". "}}

\* a span of a line: its text and the bbox (x0, y0, x1, y1) of its glyphs
Span(text, x0, x1) == [text |-> text, bbox |-> <<x0, 100, x1, 112>>]

SpanTexts == {"Annual", "Annual ", " Report", "Report", "2024  Plan", " "}

\* lines of one span, and of two spans that touch, are a word gap apart, are
\* listed right to left, or follow a span whose right edge is at 0
SpanLines ==
    {[spans |-> <<Span(t, 10, 60)>>] : t \in SpanTexts}
    \cup {[spans |-> <<Span(t1, 10, 60), Span(t2, x0, x0 + 50)>>] :
            t1 \in SpanTexts, t2 \in SpanTexts, x0 \in {60, 66}}
    \cup {[spans |-> <<Span(t2, 66, 116), Span(t1, 10, 60)>>] :
            t1 \in {"Annual", "Annual "}, t2 \in {"Report", " Report"}}
    \cup {[spans |-> <<Span(t1, -50, 0), Span(t2, 6, 56)>>] :
            t1 \in {"Annual", "Annual "}, t2 \in {"Report", " Report"}}

\* the blocks get_text("dict") can deliver: one line, or two lines
PageBlocks ==
    {[lines |-> <<l>>] : l \in SpanLines}
    \cup {[lines |-> <<l1, l2>>] :
            l1 \in {[spans |-> <<Span(t, 10, 60)>>] : t \in {"Annual ", " "}},
            l2 \in {[spans |-> <<Span(t, 10, 60)>>] : t \in {" Report", " "}}}

\* utils.clean_heading_text(text) called and returned
CallCleanHeadingText ==
    /\ \E text \in HeadingTexts :
         call' = [fn |-> "clean_heading_text", arg |-> text,
                  ret |-> clean_heading_text(text)]
    /\ UNCHANGED <<extractor, pc, entry, pdf, locals, result, runs, faulted,
                   rerun, prev_result, suite, pdf_path, toc_detected, batch>>

\* the text extract_formatted_text_blocks makes of one block of a page
CallReconstructBlockText ==
    /\ \E block \in PageBlocks :
         call' = [fn |-> "reconstruct_block_text", arg |-> block,
                  ret |-> extract_formatted_text_blocks(block)]
    /\ UNCHANGED <<extractor, pc, entry, pdf, locals, result, runs, faulted,
                   rerun, prev_result, suite, pdf_path, toc_detected, batch>>

InitText == InitOn({"core"})

NextText == CallCleanHeadingText \/ CallReconstructBlockText

SpecText == InitText /\ [][NextText]_vars

-----------------------------------------------------------------------------
\* Properties of extract_outline and extract_pdf_outline

\* the call has returned to its caller
HasReturned == pc \in {"output", "done"}

\* C1: a document from which no text block is extracted yields exactly
\* {"title": "Empty Document", "outline": []}: the call returns from the
\* extraction step, no later stage runs, the extractor's filter sets, font
\* statistics and stored title are left as they were, and the record reaches
\* the caller unchanged.
C1_EmptyDocument ==
    /\ [][(pc = "extract" /\ pdf = <<>> /\ ~faulted')
            => /\ result' = EmptyResult
               /\ pc' = Returned
               /\ extractor' = extractor]_vars
    /\ []((HasReturned /\ pdf = <<>> /\ ~faulted) => result = EmptyResult)

\* an empty document processed by an extractor that already holds the state
\* of an earlier document
C1_Witness ==
    /\ pc = "done"
    /\ pdf = <<>>
    /\ ~faulted
    /\ result = EmptyResult
    /\ runs = 2
    /\ content_filter.table_patterns # {}
    /\ ~font_stats.is_none

\* C2: a fault raised in any stage ends the call with exactly
\* {"title": "Error Processing Document", "outline": []}; nothing the stages
\* had produced is returned, and the caller receives a record, not the fault.
C2_FaultGivesErrorRecord ==
    /\ [][(pc \in Stages /\ faulted')
            => /\ result' = ErrorResult
               /\ pc' = Returned]_vars
    /\ []((HasReturned /\ faulted) => result = ErrorResult)

\* a first call that faulted after font analysis had produced statistics
C2_Witness ==
    /\ pc = "done"
    /\ faulted
    /\ runs = 1
    /\ ~font_stats.is_none
    /\ result = ErrorResult

\* C3: the title of a returned record is a non-empty string, "Untitled
\* Document" when no title can be detected.  detect_title returns None for
\* every document with a block on page 1 or 2, so the property fails.
C3_TitleIsNonEmptyString ==
    (HasReturned /\ ~faulted /\ pdf # <<>>) => Truthy(result.title)

\* C4: every entry of the outline extract_pdf_outline returns has a level of
\* H1, H2 or H3 and a text of 3 to 200 characters, merged headings included.
C4_OutlineEntries ==
    pc = "done" =>
        \A i \in DOMAIN result.outline :
            /\ result.outline[i].level \in {"H1", "H2", "H3"}
            /\ Len(result.outline[i].text) >= 3
            /\ Len(result.outline[i].text) <= 200

\* extract_pdf_outline returned an outline with a heading merged from two
\* blocks
C4_Witness ==
    /\ pc = "done"
    /\ entry = "extract_pdf_outline"
    /\ ~faulted
    /\ \E i \in DOMAIN result.outline : Cardinality(result.outline[i].src) = 2

\* C5: no heading of a returned outline has the returned title as its text,
\* or a text that occurs in the title and is at least 30% as long.
C5_TitleNotInOutline ==
    (pc = "done" /\ ~result.title.is_none) =>
        \A i \in DOMAIN result.outline :
            LET text == result.outline[i].text
            IN  /\ text # result.title.text
                /\ ~(/\ Contains(result.title.text, text)
                     /\ 10 * Len(text) >= 3 * Len(result.title.text))

\* a returned document with a block that is a heading but for the title test
C5_Witness ==
    /\ pc = "done"
    /\ ~faulted
    /\ Truthy(result.title)
    /\ \E i \in DOMAIN pdf :
        /\ is_valid_heading(content_filter, font_stats, None, pdf[i])
        /\ ~is_valid_heading(content_filter, font_stats, result.title, pdf[i])
        /\ Contains(result.title.text, pdf[i].text)

\* the blocks of the document a heading of the returned outline was made from
SourceBlocks(heading) == {pdf[i] : i \in heading.src}

\* C6 as stated: a block whose text is in the header/footer set or in the
\* table-pattern set of the extractor is never the source of a heading.  The
\* exception is_valid_heading makes for long footer text breaks it.
C6_BoilerplateNeverHeading ==
    pc = "done" =>
        \A i \in DOMAIN result.outline :
            \A block \in SourceBlocks(result.outline[i]) :
                Strip(block.text) \notin
                    content_filter.headers_footers \cup content_filter.table_patterns

\* C6, amended: a block whose text is in the table-pattern set is never the
\* source of a heading; a block whose text is in the header/footer set is
\* one only if the text is longer than 30 characters, the block lies in the
\* bottom 15% of its page and the text contains none of the words copyright,
\* the copyright sign, page, confidential, proprietary.
C6_BoilerplateHeadingOnlyAsLongFooter ==
    pc = "done" =>
        \A i \in DOMAIN result.outline :
            \A block \in SourceBlocks(result.outline[i]) :
                LET text == Strip(block.text)
                IN  /\ text \notin content_filter.table_patterns
                    /\ text \in content_filter.headers_footers
                        => /\ Len(text) > 30
                           /\ is_footer_area(block)
                           /\ ~AnyKeyword(HeaderFooterKeywords, text)

\* a returned document with a recurring footer that would be a heading if
\* the header/footer set were empty, and is none
C6_Witness ==
    /\ pc = "done"
    /\ ~faulted
    /\ \E k \in DOMAIN pdf :
        /\ Strip(pdf[k].text) \in content_filter.headers_footers
        /\ is_valid_heading([content_filter EXCEPT !.headers_footers = {}],
                            font_stats, document_title, pdf[k])
        /\ \A i \in DOMAIN result.outline : k \notin result.outline[i].src


\* C7: a block that lies inside an accepted table region of its page is
\* never the source of a heading.  is_valid_heading does not look at the
\* table regions, so the property fails once the regions are filled.
C7_NoHeadingInsideTable ==
    pc = "done" =>
        \A i \in DOMAIN result.outline :
            \A block \in SourceBlocks(result.outline[i]) :
                ~is_text_in_table(content_filter, block)

\* C8: processing the same document twice in a row with one extractor gives
\* the same record both times.
C8_SameDocumentSameResult ==
    (pc = "done" /\ rerun /\ ~faulted) => result = prev_result

\* the second of two calls on one document returned an outline with headings
C8_Witness ==
    /\ pc = "done"
    /\ rerun
    /\ ~faulted
    /\ result.outline # <<>>
    /\ content_filter.headers_footers # {}

\* extract_outline(pdf_path) of a newly constructed extractor
FreshResult(text_blocks_) ==
    IF text_blocks_ = <<>> THEN EmptyResult
    ELSE LET cf1   == identify_table_patterns(NewContentFilter, text_blocks_)
             cf2   == identify_headers_footers(cf1, text_blocks_)
             fs    == analyze_font_patterns(cf2, NoFontStats, text_blocks_)
             title_ == detect_title(text_blocks_)
             found == classify_headings(cf2, fs, title_, text_blocks_)
         IN  [title |-> title_,
              outline |-> validate_and_clean_headings(cf2, title_,
                              merge_multiline_headings(found))]

\* C9: the record returned for a document does not depend on the documents
\* the extractor processed before; it is the record a new extractor returns.
\* The filter sets and the font statistics of the extractor are never reset,
\* so the property fails.
C9_NoCrossDocumentState ==
    (pc = "done" /\ ~faulted) => result = FreshResult(pdf)

\* the font sizes the level is asked for: around the body size and the sizes
\* of the documents
ProbeSizes(fs) ==
    {fs.body_font_size + d : d \in {-30, -1, 0, 1, 10, 20, 21, 30}} \cup {110, 140}

\* C10: with font statistics computed from at least one accepted block, a
\* size more than 2 points above the body size is level 1, a size above the
\* body size up to there is level 2, any other size is level 3, and a larger
\* size never gets a deeper level than a smaller one.
C10_FontSizeLevel ==
    ~font_stats.is_none =>
        /\ \A size \in ProbeSizes(font_stats) :
            get_font_size_level(font_stats, size) =
                IF size - font_stats.body_font_size > 20 THEN 1
                ELSE IF size - font_stats.body_font_size > 0 THEN 2
                ELSE 3
        /\ \A small, large \in ProbeSizes(font_stats) :
            small < large =>
                get_font_size_level(font_stats, large)
                    <= get_font_size_level(font_stats, small)

\* statistics with a heading size above the body size, in use by classify
C10_Witness ==
    /\ pc = "classify"
    /\ ~font_stats.is_none
    /\ Len(font_stats.font_size_hierarchy) >= 2
    /\ \E i \in DOMAIN text_blocks :
        get_font_size_level(font_stats, text_blocks[i].font_size) = 1
    /\ \E i \in DOMAIN text_blocks :
        get_font_size_level(font_stats, text_blocks[i].font_size) = 3

\* C11: when exactly one block on pages 1-2 has the largest font size, a text
\* of 5 to 300 characters and is neither table nor boilerplate text, the
\* returned title is that block's cleaned text and no outline entry is made
\* of it.  detect_title returns None as soon as pages 1-2 hold a block, so
\* the property fails.
C11_LargestEarlyBlockIsTitle ==
    (HasReturned /\ ~faulted /\ pdf # <<>>) =>
        \A k \in DOMAIN pdf :
            LET text == Strip(pdf[k].text)
            IN  ( /\ pdf[k].page <= 2
                  /\ \A i \in DOMAIN pdf \ {k} :
                        pdf[i].page <= 2 => pdf[i].font_size < pdf[k].font_size
                  /\ Len(text) >= 5 /\ Len(text) <= 300
                  /\ text \notin content_filter.table_patterns
                  /\ text \notin content_filter.headers_footers
                  /\ ~is_likely_table_content(content_filter, text) )
                => /\ result.title = Some(clean_heading_text(pdf[k].text))
                   /\ \A j \in DOMAIN result.outline : k \notin result.outline[j].src

\* the text "N. <Name>" of a numbered top-level heading, and its <Name>
NumberedName == Cat(<<Plus(DigitC), C("."), Plus(SpaceC), Cls(LowerSet \cup UpperSet)>>)
NameOf(text) == SubSeq(text, FirstNotIn(text, DigitSet \cup {"."} \cup SpaceSet), Len(text))

\* the blocks of the document C12 speaks of: text "N. <Name>", larger than
\* the body font, left-aligned, in no filtered set
NumberedBlocks ==
    {k \in DOMAIN pdf :
        LET text == Strip(pdf[k].text)
        IN  /\ ReMatch(NumberedName, text)
            /\ ~font_stats.is_none
            /\ pdf[k].font_size > font_stats.body_font_size
            /\ is_left_or_center_aligned(pdf[k])
            /\ text \notin content_filter.table_patterns \cup content_filter.headers_footers
                           \cup content_filter.toc_content
            /\ ~is_likely_table_content(content_filter, text)}

C13_WorkerFailureIsIsolated ==
    batch # NoBatch =>
        /\ Cardinality(FilesIn("running")) <= 4
        /\ batch.main \in {"summary", "aborted"} =>
            \A f \in DOMAIN batch.future \ FilesIn("died") :
                /\ \E i \in DOMAIN batch.results : batch.results[i].file = f
                /\ \A i \in DOMAIN batch.results :
                    (batch.results[i].file = f /\ batch.results[i].success)
                        => f \in batch.output

\* C14: when pdfplumber is unavailable or raises on a page of the file,
\* process_all_filters still returns, no table region is taken from the
\* visual detection, and the contents, table-pattern and header/footer
\* detection run on the blocks as they do without a pdf_path.  The regions
\* of the pages before the failing one are kept, so the property fails.
C14_VisualFailureFallsBackToPatterns ==
    [][ ( /\ pc = "filters"
          /\ ~pdf_path.is_none
          /\ pdf_path.completed < Len(pdf_path.pages) )
        => LET fallback == process_all_filters(content_filter, pdf, NoPath)
               old == content_filter.table_regions
               new == content_filter'.table_regions
           IN  /\ pc' = "idle"
               /\ content_filter'.toc_pages = fallback.toc_pages
               /\ content_filter'.toc_content = fallback.toc_content
               /\ content_filter'.table_patterns = fallback.table_patterns
               /\ content_filter'.headers_footers = fallback.headers_footers
               /\ \A page \in DOMAIN new : \A i \in DOMAIN new[page] :
                    /\ page \in DOMAIN old
                    /\ \E j \in DOMAIN old[page] : old[page][j] = new[page][i]
      ]_vars

\* C15: in every pipeline run on a non-empty document the contents-page
\* detection has run on the extractor's filter before the font analysis and
\* the stages after it consult the filter.  extract_outline never calls
\* identify_table_of_contents, so the property fails.
C15_TocDetectedBeforeFontAnalysis ==
    (pc \in {"font", "title", "classify", "merge", "validate"} /\ text_blocks # <<>>)
        => toc_detected

\* C16: a text recorded as an entry of a contents page is out of later
\* consideration: no block with that text counts for the font statistics
\* and none is a heading of the returned outline.  is_valid_heading does not
\* read toc_content, so the property fails for the headings.
C16_TocEntryNeverConsidered ==
    (pc = "done" /\ ~faulted) =>
        \A k \in DOMAIN pdf :
            Strip(pdf[k].text) \in content_filter.toc_content =>
                /\ ~is_valid_content_block(content_filter, pdf[k])
                /\ \A j \in DOMAIN result.outline : k \notin result.outline[j].src

\* C17: a block whose text is the heading of a contents page ("table of
\* contents", "contents", "index", "toc", in any letter case) is valid
\* content whatever the other filters say.  is_valid_content_block tests the
\* length and the table patterns first, so the property fails for "Index".
C17_TocHeadingIsValidContent ==
    \A k \in DOMAIN pdf :
        is_toc_heading(pdf[k].text) => is_valid_content_block(content_filter, pdf[k])

\* the level C18 gives a block: the text decides before the font size, and
\* an "N.N" prefix is told from an "N." prefix
LevelByContent(fs, block) ==
    LET text == Strip(block.text)
    IN  IF ReMatch(Subsection, text) THEN "H2"
        ELSE IF ReMatch(NumberedHeading, text) THEN "H1"
        ELSE IF text \in {"Revision History", "Table of Contents", "Acknowledgements"}
             THEN "H1"
        ELSE LevelName(get_font_size_level(fs, block.font_size))

\* C18: a heading whose text starts with "N.N" (such as "2.1 Scope") has
\* level H2, one starting with "N." and no digit after it H1, a canonical
\* section title H1, and any other the level of its font-size tier.
\* determine_heading_level tests "N." first, which "N.N" matches too, so
\* the property fails.
C18_LevelByContent ==
    pc = "merge" =>
        \A j \in DOMAIN headings :
            \A k \in headings[j].src :
                headings[j].level = LevelByContent(font_stats, text_blocks[k])

\* the header/footer exception: a long text in the bottom 15% of the page
\* with no boilerplate keyword
InCarveOut(block) ==
    /\ Len(Strip(block.text)) > 30
    /\ is_footer_area(block)
    /\ ~AnyKeyword(HeaderFooterKeywords, Strip(block.text))

\* C19: a block whose text is in the header/footer set is accepted by
\* classify_headings only if the exception applies (text longer than 30
\* characters, top edge in the bottom 15% of the page, no boilerplate
\* keyword), and then only if it is also left or centre aligned, visually
\* distinct from the body text and shaped like a heading.
C19_CarveOutStillNeedsHeadingTests ==
    pc = "merge" =>
        \A j \in DOMAIN headings :
            \A k \in headings[j].src :
                LET block == text_blocks[k]
                    text  == Strip(block.text)
                IN  text \in content_filter.headers_footers =>
                        /\ InCarveOut(block)
                        /\ is_left_or_center_aligned(block)
                        /\ has_visual_distinction(font_stats, block)
                        /\ \/ ReMatch(NumberedHeading, text)
                           \/ AnyKeyword(SectionNames, text)
                           \/ EndsWith(text, ":")
                           \/ (Ch(text, 1) \in UpperSet /\ WordCount(text) <= 10)

\* three blocks of one recurring footer line, all within the exception: the
\* bold one is a heading, the plain one and the one at the right edge are not
C19_Witness ==
    /\ pc = "merge"
    /\ \E k1, k2, k3 \in DOMAIN text_blocks :
        /\ \A k \in {k1, k2, k3} :
            /\ Strip(text_blocks[k].text) \in content_filter.headers_footers
            /\ InCarveOut(text_blocks[k])
        /\ \E j \in DOMAIN headings : k1 \in headings[j].src
        /\ \A j \in DOMAIN headings : headings[j].src \cap {k2, k3} = {}
        /\ ~has_visual_distinction(font_stats, text_blocks[k2])
        /\ is_left_or_center_aligned(text_blocks[k2])
        /\ ~is_left_or_center_aligned(text_blocks[k3])

\* the pages of a document, and the pages on which a text stands in the
\* bottom band
PagesOf(blocks) == {blocks[i].page : i \in DOMAIN blocks}
BottomPagesOf(blocks, text) ==
    {blocks[i].page : i \in {j \in DOMAIN blocks :
        Band(blocks[j]) = "bottom" /\ Strip(blocks[j].text) = text}}

\* the texts C20 puts in the header/footer set, with minOccurrences =
\* max(2, pageCount / 3) taken exactly (count >= 2 and 3 * count >= pageCount)
\* and "on at least 80% of all pages" counted in pages
BoilerplateAsStated(blocks) ==
    LET pageCount == Cardinality(PagesOf(blocks))
        enough(count) == count >= 2 /\ 3 * count >= pageCount
    IN  {t \in {Strip(blocks[i].text) : i \in DOMAIN blocks} :
            \/ enough(BandCount(blocks, "top", t)) /\ ~is_page_number(t)
            \/ /\ enough(BandCount(blocks, "bottom", t))
               /\ \/ Len(t) < 50
                  \/ is_page_number(t)
                  \/ AnyKeyword(FooterKeywords, t)
                  \/ 10 * Cardinality(BottomPagesOf(blocks, t)) >= 8 * pageCount}

\* the same with pageCount / 3 rounded down and the 80% test on the number
\* of occurrences
BoilerplateRoundedDown(blocks) ==
    LET pageCount == Cardinality(PagesOf(blocks))
        enough(count) == count >= 2 /\ count >= pageCount \div 3
    IN  {t \in {Strip(blocks[i].text) : i \in DOMAIN blocks} :
            \/ enough(BandCount(blocks, "top", t)) /\ ~is_page_number(t)
            \/ /\ enough(BandCount(blocks, "bottom", t))
               /\ \/ Len(t) < 50
                  \/ is_page_number(t)
                  \/ AnyKeyword(FooterKeywords, t)
                  \/ 10 * BandCount(blocks, "bottom", t) >= 8 * pageCount}

Mergeable(heading1, heading2) ==
    /\ heading1.page = heading2.page
    /\ heading1.level = heading2.level
    /\ heading2.bbox[2] - heading1.bbox[4] <= 30
    /\ ~EndsWith(heading1.text, ".")
    /\ Len(heading1.text) + Len(heading2.text) <= 150

\* C21: merge_multiline_headings puts every two adjacent headings that are
\* mergeable in the same output heading, which has the level and page of the
\* first; so for each adjacent pair of a run of three fragments and more.
\* The loop steps over both headings of a merged pair, so the third
\* fragment of a run starts a heading of its own and the property fails.
C21_AdjacentFragmentsMerged ==
    [][ (pc = "merge" /\ pc' = "validate") =>
            \A i \in 1..(Len(headings) - 1) :
                Mergeable(headings[i], headings[i + 1]) =>
                    \E j \in DOMAIN headings' :
                        /\ headings[i].src \cup headings[i + 1].src \subseteq headings'[j].src
                        /\ headings'[j].level = headings[i].level
                        /\ headings'[j].page = headings[i].page
      ]_vars

\* C22 as stated: a heading merged from two headings has a text of at most
\* 150 characters.
C22_MergedTextAtMost150 ==
    pc = "validate" =>
        \A j \in DOMAIN headings :
            Cardinality(headings[j].src) = 2 => Len(headings[j].text) <= 150

\* C22, amended: a heading merged from two headings has the two texts joined
\* by a single space, the two texts have at most 150 characters together,
\* and the merged text has at most 151.
C22_MergedTextAtMost151 ==
    [][ (pc = "merge" /\ pc' = "validate") =>
            \A j \in DOMAIN headings' :
                Cardinality(headings'[j].src) = 2 =>
                    /\ Len(headings'[j].text) <= 151
                    /\ \E i \in 1..(Len(headings) - 1) :
                        /\ headings'[j].text =
                                headings[i].text \o " " \o headings[i + 1].text
                        /\ Len(headings[i].text) + Len(headings[i + 1].text) <= 150
      ]_vars

\* two headings of 75 characters merged into one of 151, and a heading of 76
\* characters after it that no merge took
C22_Witness ==
    /\ pc = "validate"
    /\ \E j, k \in DOMAIN headings :
        /\ Cardinality(headings[j].src) = 2
        /\ Len(headings[j].text) = 151
        /\ Cardinality(headings[k].src) = 1
        /\ Len(headings[k].text) = 76

\* the texts of a list of headings joined in order with single spaces
JoinedTexts(hs) ==
    Concat([i \in DOMAIN hs |-> IF i = 1 THEN hs[i].text ELSE " " \o hs[i].text],
           1, Len(hs))

\* C28: merge_multiline_headings neither drops nor reorders text: the texts
\* of the output joined with single spaces are the texts of the input joined
\* with single spaces, every output heading has the level and page of the
\* first input heading it is made of, and n input headings give at least
\* ceil(n/2) and at most n output headings.
C28_MergeKeepsTextAndOrder ==
    [][ (pc = "merge" /\ pc' = "validate") =>
            /\ JoinedTexts(headings') = JoinedTexts(headings)
            /\ 2 * Len(headings') >= Len(headings)
            /\ Len(headings') <= Len(headings)
            /\ \A j \in DOMAIN headings' :
                LET first == SetMin({i \in DOMAIN headings :
                                        headings[i].src \subseteq headings'[j].src})
                IN  /\ headings'[j].level = headings[first].level
                    /\ headings'[j].page = headings[first].page
      ]_vars

\* after a merge of three headings into two: a merged pair and a single one
C28_Witness ==
    /\ pc = "validate"
    /\ Len(headings) = 2
    /\ Cardinality(headings[1].src) = 2
    /\ Cardinality(headings[2].src) = 1
    /\ headings[1].text = "Annual Report Of The Regional Office"

-----------------------------------------------------------------------------
\* Properties of clean_heading_text and reconstruct_block_text

\* the text whose trailing period clean_heading_text decides on: whitespace
\* collapsed and the leading bullets removed
Unbulleted(text) ==
    LET collapsed == CollapseSpaces(Strip(text))
    IN  IF FirstNotIn(collapsed, BulletChars) = 0 THEN ""
        ELSE SubSeq(collapsed, FirstNotIn(collapsed, BulletChars),
                    Len(collapsed))

\* C23: clean_heading_text removes at most one trailing period, and only
\* from a text of more than one word whose final word, the period not
\* counted, is longer than 3 characters; every other text keeps its periods.
C23_AtMostOnePeriodRemoved ==
    call.fn = "clean_heading_text" =>
        LET before == Unbulleted(call.arg)
        IN  \/ call.ret = Strip(before)
            \/ /\ call.ret \o "." = before
               /\ WordCount(before) > 1
               /\ Len(LastWord(before)) - 1 > 3

\* C26: the text of every text block made of a block of the page is
\* normalized: not empty, no whitespace at either end, and no two whitespace
\* characters in a row, whatever the spans and the gaps between them.
C26_BlockTextNormalized ==
    (call.fn = "reconstruct_block_text" /\ ~call.ret.is_none) =>
        LET text == call.ret.text
        IN  /\ text # ""
            /\ Strip(text) = text
            /\ \A i \in 1..(Len(text) - 1) :
                 ~(Ch(text, i) \in SpaceSet /\ Ch(text, i + 1) \in SpaceSet)

\* C30: clean_heading_text is idempotent: cleaning a text it has returned
\* gives the same text again, so the cleaning of validate_and_clean_headings
\* leaves the text cleaned by classify_headings as it is.
C30_CleanIsIdempotent ==
    call.fn = "clean_heading_text" =>
        clean_heading_text(call.ret) = call.ret

-----------------------------------------------------------------------------
\* Properties of the font analysis

\* the number of blocks of seq whose field has the value v
CountOf(seq, field, v) == Cardinality({i \in DOMAIN seq : seq[i][field] = v})

\* C24: after analyze_font_patterns the body size and the body family are
\* most frequent among the valid content blocks, the size hierarchy is
\* strictly descending and holds exactly the valid sizes above the body size
\* and, last, the body size; with no valid content block the font stats are
\* the fallback (12.0, "Arial", empty hierarchy).
C24_FontStatsOfValidBlocks ==
    pc = "title" =>
        LET valid_blocks == ValidBlocks(content_filter, text_blocks)
            hierarchy    == font_stats.font_size_hierarchy
            body         == font_stats.body_font_size
        IN  IF valid_blocks = <<>>
            THEN /\ ~font_stats.is_none
                 /\ body = FallbackFontStats.body_font_size
                 /\ font_stats.body_font_family = FallbackFontStats.body_font_family
                 /\ hierarchy = <<>>
            ELSE /\ ~font_stats.is_none
                 /\ \A i \in DOMAIN valid_blocks :
                      /\ CountOf(valid_blocks, "font_size", body)
                           >= CountOf(valid_blocks, "font_size", valid_blocks[i].font_size)
                      /\ CountOf(valid_blocks, "font_family", font_stats.body_font_family)
                           >= CountOf(valid_blocks, "font_family", valid_blocks[i].font_family)
                 /\ CountOf(valid_blocks, "font_size", body) > 0
                 /\ CountOf(valid_blocks, "font_family", font_stats.body_font_family) > 0
                 /\ \A i \in 1..(Len(hierarchy) - 1) : hierarchy[i] > hierarchy[i + 1]
                 /\ hierarchy # <<>> /\ hierarchy[Len(hierarchy)] = body
                 /\ Range(hierarchy) =
                      {valid_blocks[i].font_size : i \in DOMAIN valid_blocks}
                        \cap {size \in Range(hierarchy) \cup
                                {valid_blocks[i].font_size : i \in DOMAIN valid_blocks} :
                                size >= body}

\* bold, italic, larger than the body size or of another family than the
\* body family of the stats fs
VisuallyDistinct(fs, block) ==
    \/ HasFlag(block.flags, 16)
    \/ HasFlag(block.flags, 2)
    \/ block.font_size > fs.body_font_size
    \/ block.font_family # fs.body_font_family

\* C25: once analyze_font_patterns has run on a document,
\* has_visual_distinction holds of a block exactly when the block is bold,
\* italic, larger than the body size or of another family than the body
\* family, with the stats computed from the document as with the fallback
\* stats of a document without valid content block.
C25_VisualDistinctionAfterAnalysis ==
    pc \in {"title", "classify"} =>
        LET stats == IF ValidBlocks(content_filter, text_blocks) = <<>>
                     THEN FallbackFontStats ELSE font_stats
        IN  \A i \in DOMAIN text_blocks :
              has_visual_distinction(font_stats, text_blocks[i])
                <=> VisuallyDistinct(stats, text_blocks[i])

\* C27: within the run on one document, the stages after the detection
\* steps of the content filter (font analysis, title detection, heading
\* classification, merge, validation) leave table_patterns, headers_footers,
\* toc_content, toc_pages and table_regions as they are, and the stages
\* after the font analysis leave the font stats as they are.
C27_FilterStateReadOnlyAfterDetection ==
    [][ /\ pc \in {"font", "title", "classify", "merge", "validate"}
          => content_filter' = content_filter
        /\ pc \in {"title", "classify", "merge", "validate"}
          => font_stats' = font_stats ]_vars

C27_Witness ==
    /\ pc = "output"
    /\ ~faulted
    /\ content_filter.headers_footers # {}
    /\ ~font_stats.is_none
    /\ result.outline # <<>>

-----------------------------------------------------------------------------
\* Properties of the header/footer detection on a new extractor

\* the pages on which the text stands in the band
BandPagesOf(blocks, band, text) ==
    {blocks[i].page : i \in {j \in DOMAIN blocks :
        Band(blocks[j]) = band /\ Strip(blocks[j].text) = text}}

\* C29: every text of headers_footers recurs across pages: it stands in the
\* top band, or in the bottom band, on at least two distinct pages of the
\* document; occurrences on one page alone put no text in the set.
C29_BoilerplateOnTwoPages ==
    pc = "font" =>
        \A t \in content_filter.headers_footers :
            \E band \in {"top", "bottom"} :
                Cardinality(BandPagesOf(text_blocks, band, t)) >= 2

=============================================================================
